---- MODULE Spec2Model ----
(***************************************************************************)
(* Model of robomimic/scripts/dataset_states_to_obs.py: the conversion of  *)
(* a dataset of simulator states and actions into a dataset of             *)
(* observations by replaying every trajectory through the simulator.       *)
(*                                                                         *)
(* The program is sequential; pc is its position.  The simulator and the   *)
(* source hdf5 file are the environment: what the simulator reports after  *)
(* a transition, and what a dataset holds when it is read for the first    *)
(* time, are chosen with \E at the action that asks for them and recorded  *)
(* (sim, f_data, f_mask), so that a later read sees the same value.        *)
(*                                                                         *)
(* Python indices start at 0, TLA+ sequences at 1: the Python states[i]    *)
(* is states[i + 1] here.  An optional value (None, a missing dataset, an  *)
(* unbound local) is the empty sequence << >>, a present one is << v >>.   *)
(***************************************************************************)
EXTENDS Integers, Sequences, FiniteSets, TLC

\* ---------------------------------------------------------------- bounds
MaxLen == 3         \* states (and actions) of one demonstration

\* names of the demonstration groups the source file may hold, as the digits
\* after "demo_": demo_2, demo_10
DemoPool == {<<2>>, <<1, 0>>}
\* values of --n: absent, or a number of trajectories
NChoices == {<<>>, <<0>>, <<1>>, <<3>>}
\* cameras the command line may name
CameraPool == {"agentview"}
\* values of --done_mode (any int parses; 3 is outside the documented 0/1/2)
DoneModes == 0 .. 3

Min(a, b) == IF a < b THEN a ELSE b
Max(a, b) == IF a > b THEN a ELSE b

\* ----------------------------------------------------- names and ordering
\* int(elem[5:]): the decimal value of the digits after "demo_"
RECURSIVE IntOf(_)
IntOf(d) == IF d = <<>> THEN 0 ELSE 10 * IntOf(SubSeq(d, 1, Len(d) - 1)) + d[Len(d)]

\* order of two names as strings ("demo_10" < "demo_2")
RECURSIVE LexLess(_, _)
LexLess(a, b) ==
    IF a = <<>> THEN b # <<>>
    ELSE IF b = <<>> THEN FALSE
    ELSE IF a[1] # b[1] THEN a[1] < b[1]
    ELSE LexLess(Tail(a), Tail(b))

\* list(f["data"].keys()): hdf5 lists the members of a group by name
RECURSIVE Keys(_)
Keys(S) ==
    IF S = {} THEN <<>>
    ELSE LET m == CHOOSE x \in S : \A y \in S \ {x} : LexLess(x, y)
         IN <<m>> \o Keys(S \ {m})

\* np.argsort(v): the positions of v in increasing order of value
RECURSIVE ArgSortFrom(_, _)
ArgSortFrom(v, left) ==
    IF left = {} THEN <<>>
    ELSE LET m == CHOOSE i \in left : \A j \in left \ {i} :
                      v[i] < v[j] \/ (v[i] = v[j] /\ i < j)
         IN <<m>> \o ArgSortFrom(v, left \ {m})

ArgSort(v) == ArgSortFrom(v, DOMAIN v)

\* lines 345-347: the demonstration names in increasing number order
SortedDemosUnsorted(keys) == keys

SortedDemos(keys) ==
    LET inds == ArgSort([i \in DOMAIN keys |-> IntOf(keys[i])])
    IN [i \in DOMAIN keys |-> keys[inds[i]]]

\* demos[:n] for n >= 0 (Python slicing clamps to the length)
Slice(demos, n) == IF n = <<>> THEN demos ELSE SubSeq(demos, 1, Min(n[1], Len(demos)))


\* ------------------------------------------------------- the source file
\* f["data/<ep>/states"][()] and f["data/<ep>/actions"][()]: the recorded
\* simulator states and actions of demonstration ep, each element named by
\* the demonstration and its Python index
StatesOf(name, len) == [j \in 1 .. len |-> [ep |-> IntOf(name), s |-> j - 1]]
ActionsOf(name, len) == [j \in 1 .. len |-> [ep |-> IntOf(name), a |-> j - 1]]

\* f["data/<ep>/rewards"][()]: the rewards recorded in the source file, each
\* element named by the demonstration and its Python index
RewardsOf(name, len) == [j \in 1 .. len |-> [ep |-> IntOf(name), r |-> j - 1]]

\* f["data/<ep>/dones"][()]: a recorded done signal, 1 at the last step only
DonesOf(len) == [i \in 1 .. len |-> IF i = len THEN 1 ELSE 0]

\* what the source file can hold as rewards (dones) of a demonstration of
\* len states: nothing (no such dataset), or an array; nothing in the code
\* ties the array's length to the number of states
SrcRewardsChoices(name, len) == {<<>>} \cup {<<RewardsOf(name, l)>> : l \in (len - 1) .. len}
SrcDonesChoices(len) == {<<>>} \cup {<<DonesOf(l)>> : l \in (len - 1) .. len}

\* lengths of an actions dataset
ActionLens == 0 .. MaxLen

\* a dataset of the source file that the run has not read
Unread == [read |-> FALSE, data |-> <<>>]
ReadAs(choice) == [read |-> TRUE, data |-> choice]

\* ---------------------------------------------------------- the simulator
\* the simulator before any reset
SimFresh == [at |-> <<>>, stepped |-> <<>>]

\* env.reset_to({"states": s}): the simulator is put in the recorded state s
SimResetTo(s) == [at |-> <<s>>, stepped |-> <<>>]

\* env.step(a): the simulator advances from its current state under action a
SimStep(sim0, a) == [at |-> sim0.at, stepped |-> <<a>>]

\* env.get_reward(): the reward of the simulator's current state
GetReward(sim0) == [at |-> sim0.at, stepped |-> sim0.stepped]

\* the keys of an observation dict: low-dimensional state, one image per
\* camera, one depth map per camera when depth is on
ObsKeys(a) ==
    {<<"robot0", "eef_pos">>} \cup {<<c, "image">> : c \in a.camera_names}
        \cup (IF a.depth THEN {<<c, "depth">> : c \in a.camera_names} ELSE {})

\* the observation dict the simulator returns in its current state
Observation(sim0, keys) == [k \in keys |-> [key |-> k, at |-> sim0.at, stepped |-> sim0.stepped]]

\* the camera info dict reset_to returns: per camera, the (randomized)
\* intrinsics and extrinsics of the call
CameraInfo(sim0, cams) ==
    [c \in cams |->
        [camera_intrinsics |-> [cam |-> c, at |-> sim0.at, m |-> "K"],
         camera_extrinsics |-> [cam |-> c, at |-> sim0.at, m |-> "R"]]]

\* one entry of the log of simulator calls of the current trajectory: the
\* method, the Python index of the state or action passed (-1: none), and
\* for is_success the value of ["task"] it returned
Call(name, idx) == [call |-> name, idx |-> idx, ret |-> FALSE]
CallRet(name, ret) == [call |-> name, idx |-> -1, ret |-> ret]

\* ------------------------------------------------------ extract_trajectory
\* lines 192-198: the simulator call that yields the next observation of the
\* iteration with next-obs index tt: the final action is played at the last
\* index, the recorded state tt is loaded at every other
NextObsCallAlwaysStep(tt, traj_len) == Call("step", tt - 1)

NextObsCall(tt, traj_len) ==
    IF tt = traj_len THEN Call("step", tt - 1) ELSE Call("reset_to", tt)

\* lines 194-198: next_camera_info after call c, which left the simulator in
\* sim1: reset_to binds it, env.step leaves it as it was (prev, <<>> when it
\* has never been bound)
NextCameraInfoKept(c, sim1, cams, prev) ==
    IF c.call = "step" \/ prev # <<>> THEN prev ELSE <<CameraInfo(sim1, cams)>>

NextCameraInfo(c, sim1, cams, prev) ==
    IF c.call = "step" THEN prev ELSE <<CameraInfo(sim1, cams)>>

\* the simulator after call c, made in state sim0 with the arrays st and ac
AfterCall(sim0, c, st, ac) ==
    IF c.call = "step" THEN SimStep(sim0, ac[c.idx + 1]) ELSE SimResetTo(st[c.idx + 1])

\* line 157: assert states.shape[0] == actions.shape[0]
LengthsAgreeUnchecked(st, ac) == TRUE

LengthsAgree(st, ac) == Len(st) = Len(ac)

\* lines 206-209: the end-of-trajectory part of the done signal
DoneAtEndNever(done_mode, tt, traj_len) == FALSE

DoneAtEndMode1Only(done_mode, tt, traj_len) ==
    IF done_mode = 1 THEN FALSE \/ (tt = traj_len) ELSE FALSE

DoneAtEnd(done_mode, tt, traj_len) ==
    IF (done_mode = 1) \/ (done_mode = 2) THEN FALSE \/ (tt = traj_len) ELSE FALSE

\* line 210-212: env.is_success() is evaluated only in modes 0 and 2, and
\* only when done is not already true (Python's "or" short-circuits)
ConsultsSuccess(done_mode, tt, traj_len) ==
    ((done_mode = 0) \/ (done_mode = 2)) /\ ~DoneAtEnd(done_mode, tt, traj_len)

\* lines 205-213: the done signal of the step whose next-obs index is tt
InferDoneEndOnly(done_mode, tt, traj_len, success) ==
    IF tt = traj_len THEN 1 ELSE 0

InferDone(done_mode, tt, traj_len, success) ==
    LET done1 == DoneAtEnd(done_mode, tt, traj_len)
        done2 == IF (done_mode = 0) \/ (done_mode = 2) THEN done1 \/ success ELSE done1
    IN IF done2 THEN 1 ELSE 0

\* lines 174-185: the traj dict before the loop
NewTraj(st, ac, init_state, cam_info) ==
    [obs |-> <<>>, next_obs |-> <<>>, rewards |-> <<>>, dones |-> <<>>,
     actions |-> ac, states |-> st, initial_state_dict |-> init_state,
     camera_info |-> [c \in DOMAIN cam_info |-> [intrinsics |-> <<>>, extrinsics |-> <<>>]]]

\* lines 215-225: the transition of one iteration appended to traj
CollectWithoutNextObs(tr, o, cam_info, nobs, r, done) ==
    [tr EXCEPT
        !.obs = Append(@, o),
        !.camera_info = [c \in DOMAIN @ |->
            [intrinsics |-> Append(@[c].intrinsics, cam_info[c].camera_intrinsics),
             extrinsics |-> Append(@[c].extrinsics, cam_info[c].camera_extrinsics)]],
        !.next_obs = IF @ = <<>> THEN Append(@, nobs) ELSE @,
        !.rewards = Append(@, r),
        !.dones = Append(@, done)]

Collect(tr, o, cam_info, nobs, r, done) ==
    [tr EXCEPT
        !.obs = Append(@, o),
        !.camera_info = [c \in DOMAIN @ |->
            [intrinsics |-> Append(@[c].intrinsics, cam_info[c].camera_intrinsics),
             extrinsics |-> Append(@[c].extrinsics, cam_info[c].camera_extrinsics)]],
        !.next_obs = Append(@, nobs),
        !.rewards = Append(@, r),
        !.dones = Append(@, done)]

\* TensorUtils.list_of_flat_dict_to_dict_of_list (lines 232-233)
ListOfDictToDictOfList(list) ==
    IF list = <<>> THEN <<>>
    ELSE [k \in DOMAIN list[1] |-> [i \in 1 .. Len(list) |-> list[i][k]]]

\* --------------------------------------------------------- get_camera_info
\* the longest camera_names list of the model
MaxCams == 2

\* camera names, as the words between their underscores
CamNamePool ==
    {<<"agentview">>, <<"robot0", "robotview">>,
     <<"robot0", "eye", "in", "hand">>, <<"robot1", "eye", "in", "hand">>}

\* the camera_names arguments: None (<< >>) or a list of up to MaxCams names
RECURSIVE ListsUpTo(_, _)
ListsUpTo(S, n) ==
    IF n = 0 THEN {<<>>}
    ELSE ListsUpTo(S, n - 1) \cup {Append(l, x) : l \in ListsUpTo(S, n - 1), x \in S}

CamNamesChoices == {<<>>} \cup {<<l>> : l \in ListsUpTo(CamNamePool, MaxCams)}

\* a numpy array of two dimensions: its shape and its elements, row by row
Array(shape, data) == [shape |-> shape, data |-> data]

\* A[i, j], indices from 1
At(A, i, j) == A.data[(i - 1) * A.shape[2] + j]

\* the row and the column of the k-th element of an array of m columns
RowOf(k, m) == ((k - 1) \div m) + 1
ColOf(k, m) == ((k - 1) % m) + 1

RECURSIVE SumSeq(_)
SumSeq(q) == IF q = <<>> THEN 0 ELSE Head(q) + SumSeq(Tail(q))

\* A.T
Transpose(A) ==
    Array(<<A.shape[2], A.shape[1]>>,
          [k \in 1 .. A.shape[2] * A.shape[1] |->
              At(A, ColOf(k, A.shape[1]), RowOf(k, A.shape[1]))])

\* A.dot(B) for two matrices
Dot(A, B) ==
    Array(<<A.shape[1], B.shape[2]>>,
          [k \in 1 .. A.shape[1] * B.shape[2] |->
              SumSeq([l \in 1 .. A.shape[2] |->
                  At(A, RowOf(k, B.shape[2]), l) * At(B, l, ColOf(k, B.shape[2]))])])

\* A.dot(v) for a matrix and a vector
DotVec(A, v) ==
    [i \in 1 .. A.shape[1] |-> SumSeq([l \in 1 .. A.shape[2] |-> At(A, i, l) * v[l]])]

\* A.tolist(): the list of the rows, each a list
ToList(A) == [i \in 1 .. A.shape[1] |-> [j \in 1 .. A.shape[2] |-> At(A, i, j)]]

\* np.array(rows) of a list of rows
FromList(rows) ==
    Array(<<Len(rows), Len(rows[1])>>,
          [k \in 1 .. Len(rows) * Len(rows[1]) |->
              rows[RowOf(k, Len(rows[1]))][ColOf(k, Len(rows[1]))]])

\* A[:3, :3] and A[:3, 3]
Block3(A) == Array(<<3, 3>>, [k \in 1 .. 9 |-> At(A, RowOf(k, 3), ColOf(k, 3))])
Column4(A) == [i \in 1 .. 3 |-> At(A, i, 4)]

\* lines 274-277 and 278-281: np.zeros((4, 4)) with the upper left block set
\* to rot, the upper right column to pos and the corner to 1.0
Homogeneous(rot, pos) ==
    Array(<<4, 4>>,
          [k \in 1 .. 16 |->
              LET i == RowOf(k, 4)
                  j == ColOf(k, 4)
              IN IF i <= 3 /\ j <= 3 THEN At(rot, i, j)
                 ELSE IF i <= 3 THEN pos[i]
                 ELSE IF j = 4 THEN 1 ELSE 0])

\* lines 274-277: the end-effector pose in the world frame, from the flat
\* site_xmat entry reshaped to 3x3 and the site_xpos entry
EefPose(site_xmat, site_xpos) == Homogeneous(Array(<<3, 3>>, site_xmat), site_xpos)

\* lines 278-281: the inverse of a rigid transform
EefPoseInv(eef_pose) ==
    LET rot_t == Transpose(Block3(eef_pose))
    IN Homogeneous(rot_t, [i \in 1 .. 3 |-> 0 - DotVec(rot_t, Column4(eef_pose))[i]])

\* pat in name, name.startswith(prefix): over the words of a name
Contains(name, pat) ==
    \E i \in 0 .. Len(name) - Len(pat) : SubSeq(name, i + 1, i + Len(pat)) = pat
StartsWith(name, prefix) ==
    Len(name) >= Len(prefix) /\ SubSeq(name, 1, Len(prefix)) = prefix

\* line 268: "eye_in_hand" in cam_name
IsEyeInHandAlways(cam_name) == TRUE

IsEyeInHand(cam_name) == Contains(cam_name, <<"eye", "in", "hand">>)

\* line 270: cam_name.startswith("robot0")
IsRobot0(cam_name) == StartsWith(cam_name, <<"robot0">>)

\* rotations as site_xmat gives them, flat: identity, a quarter turn about z,
\* a quarter turn about x
RotPool == {<<1, 0, 0, 0, 1, 0, 0, 0, 1>>, <<0, -1, 0, 1, 0, 0, 0, 0, 1>>,
            <<1, 0, 0, 0, 0, -1, 0, 1, 0>>}
PosPool == {<<0, 0, 0>>, <<1, 2, 3>>}

\* camera poses in the world frame, as get_camera_extrinsic_matrix gives them
ExtrinsicPool ==
    {Homogeneous(Array(<<3, 3>>, <<1, 0, 0, 0, 1, 0, 0, 0, 1>>), <<0, 0, 1>>),
     Homogeneous(Array(<<3, 3>>, <<0, -1, 0, 1, 0, 0, 0, 0, 1>>), <<2, 0, 1>>)}

\* the environments get_camera_info is called on: whether it is a robosuite
\* environment, its answer to get_camera_extrinsic_matrix per camera, and the
\* site_xmat and site_xpos entries of the end-effector site
CamEnvs ==
    [robosuite : BOOLEAN, extrinsic : [CamNamePool -> ExtrinsicPool],
     site_xmat : RotPool, site_xpos : PosPool]

\* lines 266-267: the matrices the simulator gives for a camera
IntrinsicMatrix(env, cam_name) == [K |-> cam_name]
ExtrinsicMatrix(env, cam_name) == env.extrinsic[cam_name]

\* lines 267-282: R of a camera that passed the assertion of line 270
Extrinsics(env, cam_name) ==
    IF IsEyeInHand(cam_name)
    THEN Dot(ExtrinsicMatrix(env, cam_name),
             EefPoseInv(EefPose(env.site_xmat, env.site_xpos)))
    ELSE ExtrinsicMatrix(env, cam_name)

\* ---------------------------------------------------- dataset_states_to_obs
\* lines 296-297: depth needs at least one camera
DepthAssertionHoldsAlways(a) == TRUE

DepthAssertionHolds(a) == ~a.depth \/ Cardinality(a.camera_names) > 0

\* lines 384-387: rewards and dones of the trajectory after the optional copy
\* from the source file (src is the source dataset, present)
RewardsToWriteNoCopy(a, tr, src) == tr.rewards

RewardsToWrite(a, tr, src) == IF a.copy_rewards THEN src[1] ELSE tr.rewards

DonesToWrite(a, tr, src) == IF a.copy_dones THEN src[1] ELSE tr.dones

\* line 418 and 424: traj["actions"].shape[0]
NumSamplesOffByOne(tr) == Len(tr.actions) + 1

NumSamples(tr) == Len(tr.actions)

\* lines 393-418: the group of one episode in the output file, before the
\* camera_info attribute is set
EpisodeGroup(a, tr, robosuite) ==
    [actions |-> tr.actions, states |-> tr.states,
     rewards |-> tr.rewards, dones |-> tr.dones,
     obs |-> tr.obs,
     next_obs |-> IF a.exclude_next_obs THEN <<>> ELSE tr.next_obs,
     camera_info |-> tr.camera_info,
     attrs |-> [model_file |-> IF robosuite THEN tr.initial_state_dict.model ELSE <<>>,
                num_samples |-> <<NumSamples(tr)>>,
                camera_info |-> <<>>]]

\* ------------------------------------------------------------------ state
VARIABLES
    args,              \* the parsed command line
    pc,                \* position of the run
    failure,           \* the exception that ended the run, "" when none
    env_created,       \* create_env_for_data_processing has run (line 301)
    is_robosuite_env,  \* line 341
    dataset_opened,    \* the source file has been opened (lines 300, 344)
    f_demos,           \* names of the groups under f["data"]
    f_data,            \* per demonstration read so far: its source datasets
    f_mask,            \* the source "mask" group, once looked up
    demos,             \* line 347-351: the names to play back, in order
    out_created,       \* the output file exists (line 355)
    out_data,          \* groups under the output's "data", by name
    out_mask,          \* the output's "mask" group
    out_attrs,         \* attributes of the output's "data" group
    total_samples,     \* line 360
    ind,               \* line 361: number of demonstrations finished
    ep,                \* line 362
    states,            \* line 365
    actions,           \* line 371
    initial_state,     \* line 366-368
    sim,               \* the simulator
    sim_log,           \* simulator calls made for the current trajectory
    success_ret,       \* per iteration: what is_success returned and in which
                       \* simulator state, << >> if it was not called
    traj,              \* extract_trajectory's traj, then its caller's
    t,                 \* line 189
    obs,               \* line 161, 228
    camera_info,       \* line 161, 229, then the caller's (line 372)
    next_obs,          \* line 194, 198
    next_camera_info,  \* line 198; << >> while unbound
    cam_pc,            \* position of a call of get_camera_info
    cam_env,           \* its env argument, << >> when there is no call
    cam_names,         \* its camera_names argument
    cam_i,             \* number of names the loop of line 265 has done
    cam_info,          \* its camera_info dict (line 264)
    cam_failure        \* the exception that ended the call, "" when none

cfgVars == <<args, env_created, is_robosuite_env>>
srcVars == <<dataset_opened, f_demos, f_data, f_mask, demos>>
outVars == <<out_created, out_data, out_mask, out_attrs>>
loopVars == <<total_samples, ind, ep, states, actions, initial_state>>
simVars == <<sim, sim_log, success_ret>>
trajVars == <<traj, t, obs, camera_info, next_obs, next_camera_info>>
camVars == <<cam_pc, cam_env, cam_names, cam_i, cam_info, cam_failure>>
vars == <<pc, failure, cfgVars, srcVars, outVars, loopVars, simVars, trajVars, camVars>>

\* the command lines of the model
ArgsSpace ==
    [done_mode : DoneModes,
     copy_rewards : BOOLEAN, copy_dones : BOOLEAN,
     exclude_next_obs : BOOLEAN,
     depth : BOOLEAN,
     camera_names : SUBSET CameraPool,
     n : NChoices]

\* the command line with every option left at its default (lines 441-549)
DefaultArgs ==
    [done_mode |-> 0, copy_rewards |-> FALSE, copy_dones |-> FALSE,
     exclude_next_obs |-> FALSE, depth |-> FALSE, camera_names |-> {}, n |-> <<>>]

\* the script before its first statement
ScriptStart ==
    /\ pc = "start"
    /\ failure = ""
    /\ env_created = FALSE
    /\ is_robosuite_env = FALSE
    /\ dataset_opened = FALSE
    /\ f_demos = {}
    /\ f_data = <<>>
    /\ f_mask = Unread
    /\ demos = <<>>
    /\ out_created = FALSE
    /\ out_data = <<>>
    /\ out_mask = <<>>
    /\ out_attrs = [total |-> <<>>, env_args |-> <<>>]
    /\ total_samples = 0
    /\ ind = 0
    /\ ep = <<>>
    /\ states = <<>>
    /\ actions = <<>>
    /\ initial_state = <<>>
    /\ sim = SimFresh
    /\ sim_log = <<>>
    /\ success_ret = <<>>
    /\ traj = <<>>
    /\ t = 0
    /\ obs = <<>>
    /\ camera_info = <<>>
    /\ next_obs = <<>>
    /\ next_camera_info = <<>>

\* the script never calls get_camera_info (the call of lines 164-172 is
\* commented out)
CamIdle ==
    /\ cam_pc = "idle"
    /\ cam_env = <<>>
    /\ cam_names = <<>>
    /\ cam_i = 0
    /\ cam_info = <<>>
    /\ cam_failure = ""

Init ==
    /\ args \in ArgsSpace
    /\ ScriptStart
    /\ CamIdle

\* the exceptions of the run
ErrDepth == "AssertionError: must specify camera names if using depth"
ErrIndex == "IndexError: states[0]"
ErrLengths == "AssertionError: states.shape[0] == actions.shape[0]"
ErrUnbound == "UnboundLocalError: next_camera_info"
ErrNoRewards == "KeyError: rewards"
ErrNoDones == "KeyError: dones"
ErrNotRobosuite == "AssertionError: is_robosuite_env"

\* the run swallows the exception and goes on with the loop
RaiseAndContinue(what) == pc' = "loop" /\ failure' = what

\* an exception is caught nowhere: it ends the run
Raise(what) == pc' = "failed" /\ failure' = what

\* ---------------------------------------------------------------- actions
\* lines 296-297
CheckDepth ==
    /\ pc = "start"
    /\ IF DepthAssertionHolds(args)
       THEN pc' = "create_env" /\ UNCHANGED failure
       ELSE Raise(ErrDepth)
    /\ UNCHANGED <<cfgVars, srcVars, outVars, loopVars, simVars, trajVars>>
    /\ UNCHANGED camVars

\* lines 300-341: the environment metadata is read from the dataset and the
\* environment is created and wrapped
CreateEnv ==
    /\ pc = "create_env"
    /\ dataset_opened' = TRUE
    /\ env_created' = TRUE
    /\ is_robosuite_env' \in BOOLEAN
    /\ pc' = "open_input"
    /\ UNCHANGED <<failure, args, f_demos, f_data, f_mask, demos, outVars,
                   loopVars, simVars, trajVars>>
    /\ UNCHANGED camVars

\* lines 344-351: the demonstrations of the source file, sorted and cut to n
OpenInput ==
    /\ pc = "open_input"
    /\ \E S \in SUBSET DemoPool :
        /\ f_demos' = S
        /\ demos' = Slice(SortedDemos(Keys(S)), args.n)
    /\ pc' = "create_output"
    /\ UNCHANGED <<failure, cfgVars, dataset_opened, f_data, f_mask, outVars,
                   loopVars, simVars, trajVars>>
    /\ UNCHANGED camVars

\* lines 354-360: the output file is created (truncated) with its data group
CreateOutput ==
    /\ pc = "create_output"
    /\ out_created' = TRUE
    /\ out_data' = <<>>
    /\ out_mask' = <<>>
    /\ out_attrs' = [total |-> <<>>, env_args |-> <<>>]
    /\ total_samples' = 0
    /\ ind' = 0
    /\ pc' = "loop"
    /\ UNCHANGED <<failure, cfgVars, srcVars, ep, states, actions, initial_state,
                   simVars, trajVars>>
    /\ UNCHANGED camVars

\* lines 361-371: the next demonstration is read from the source file
LoadDemo ==
    /\ pc = "loop"
    /\ ind < Len(demos)
    /\ ep' = demos[ind + 1]
    /\ sim_log' = <<>>
    /\ success_ret' = <<>>
    /\ \E ns \in 0 .. MaxLen, na \in ActionLens :
        LET st == StatesOf(demos[ind + 1], ns)
            ac == ActionsOf(demos[ind + 1], na)
        IN /\ states' = st
           /\ IF ns = 0
              THEN \* line 366: states[0] of an empty array
                   /\ Raise(ErrIndex)
                   /\ f_data' = f_data @@ (demos[ind + 1] :>
                        [states |-> st, actions |-> <<>>, rewards |-> Unread, dones |-> Unread])
                   /\ UNCHANGED <<actions, initial_state>>
              ELSE /\ f_data' = f_data @@ (demos[ind + 1] :>
                        [states |-> st, actions |-> ac, rewards |-> Unread, dones |-> Unread])
                   /\ initial_state' =
                        [states |-> st[1],
                         model |-> IF is_robosuite_env THEN <<IntOf(demos[ind + 1])>> ELSE <<>>]
                   /\ actions' = ac
                   /\ pc' = "extract"
                   /\ UNCHANGED failure
    /\ UNCHANGED <<cfgVars, dataset_opened, f_demos, f_mask, demos, outVars,
                   total_samples, ind, sim, trajVars>>
    /\ UNCHANGED camVars

\* lines 156-187: extract_trajectory up to its loop
ExtractBegin ==
    /\ pc = "extract"
    /\ IF ~LengthsAgree(states, actions)
       THEN /\ Raise(ErrLengths)
            /\ UNCHANGED <<simVars, trajVars>>
       ELSE LET sim1 == SimResetTo(initial_state.states)
                ci == CameraInfo(sim1, args.camera_names)
            IN /\ sim' = sim1
               /\ sim_log' = sim_log \o <<Call("reset", -1), Call("reset_to", 0)>>
               /\ obs' = Observation(sim1, ObsKeys(args))
               /\ camera_info' = ci
               /\ traj' = NewTraj(states, actions, initial_state, ci)
               /\ next_obs' = <<>>
               /\ next_camera_info' = <<>>
               /\ success_ret' = <<>>
               /\ t' = 1
               /\ pc' = "iter"
               /\ UNCHANGED failure
    /\ UNCHANGED <<cfgVars, srcVars, outVars, loopVars>>
    /\ UNCHANGED camVars

\* lines 189-229: one iteration of the loop over the next-obs index t
LoopIter ==
    /\ pc = "iter"
    /\ \E success \in (IF ConsultsSuccess(args.done_mode, t, Len(states))
                       THEN BOOLEAN ELSE {FALSE}) :
        LET traj_len == Len(states)
            last == (t = traj_len)
            call == NextObsCall(t, traj_len)
            sim1 == AfterCall(sim, call, states, actions)
            nobs == Observation(sim1, ObsKeys(args))
            nci == NextCameraInfo(call, sim1, args.camera_names, next_camera_info)
            r == GetReward(sim1)
            done == InferDone(args.done_mode, t, traj_len, success)
            asked == IF ConsultsSuccess(args.done_mode, t, traj_len)
                     THEN <<[task |-> success, of |-> sim1]>> ELSE <<>>
        IN /\ sim' = sim1
           /\ success_ret' = Append(success_ret, asked)
           /\ sim_log' = sim_log
                \o <<call>>
                \o <<Call("get_reward", -1)>>
                \o (IF ConsultsSuccess(args.done_mode, t, traj_len)
                    THEN <<CallRet("is_success", success)>> ELSE <<>>)
           /\ next_obs' = <<nobs>>
           /\ next_camera_info' = nci
           /\ traj' = Collect(traj, obs, camera_info, nobs, r, done)
           /\ obs' = nobs
           /\ IF nci = <<>>
              THEN \* line 229 reads next_camera_info, which no iteration has bound
                   /\ Raise(ErrUnbound)
                   /\ UNCHANGED <<camera_info, t>>
              ELSE /\ camera_info' = nci[1]
                   /\ t' = IF last THEN t ELSE t + 1
                   /\ pc' = IF last THEN "end_extract" ELSE "iter"
                   /\ UNCHANGED failure
    /\ UNCHANGED <<cfgVars, srcVars, outVars, loopVars>>
    /\ UNCHANGED camVars

\* lines 231-245: the lists become arrays and traj, camera_info are returned
ExtractEnd ==
    /\ pc = "end_extract"
    /\ traj' = [traj EXCEPT !.obs = ListOfDictToDictOfList(@),
                            !.next_obs = ListOfDictToDictOfList(@)]
    /\ pc' = "copy"
    /\ UNCHANGED <<failure, cfgVars, srcVars, outVars, loopVars, simVars,
                   t, obs, camera_info, next_obs, next_camera_info>>
    /\ UNCHANGED camVars

\* lines 383-387: rewards and dones are replaced by the source's when asked
CopySignals ==
    /\ pc = "copy"
    /\ \E rw \in (IF args.copy_rewards THEN SrcRewardsChoices(ep, Len(states)) ELSE {<<>>}),
          dn \in (IF args.copy_dones THEN SrcDonesChoices(Len(states)) ELSE {<<>>}) :
        IF args.copy_rewards /\ rw = <<>>
        THEN /\ Raise(ErrNoRewards)
             /\ f_data' = [f_data EXCEPT ![ep].rewards = ReadAs(rw)]
             /\ UNCHANGED traj
        ELSE IF args.copy_dones /\ dn = <<>>
        THEN /\ Raise(ErrNoDones)
             /\ f_data' = [f_data EXCEPT
                    ![ep].rewards = IF args.copy_rewards THEN ReadAs(rw) ELSE @,
                    ![ep].dones = ReadAs(dn)]
             /\ traj' = [traj EXCEPT !.rewards = RewardsToWrite(args, traj, rw)]
        ELSE /\ f_data' = [f_data EXCEPT
                    ![ep].rewards = IF args.copy_rewards THEN ReadAs(rw) ELSE @,
                    ![ep].dones = IF args.copy_dones THEN ReadAs(dn) ELSE @]
             /\ traj' = [traj EXCEPT !.rewards = RewardsToWrite(args, traj, rw),
                                     !.dones = DonesToWrite(args, traj, dn)]
             /\ pc' = "write"
             /\ UNCHANGED failure
    /\ UNCHANGED <<cfgVars, dataset_opened, f_demos, f_mask, demos, outVars, loopVars,
                   simVars, t, obs, camera_info, next_obs, next_camera_info>>
    /\ UNCHANGED camVars

\* lines 389-424: the episode's group is written and the total advanced.
\* The camera_info extract_trajectory returns is a dict, never None, so the
\* assertion of line 421 is always evaluated.
WriteGroup ==
    /\ pc = "write"
    /\ LET grp == EpisodeGroup(args, traj, is_robosuite_env)
       IN IF ~is_robosuite_env
          THEN /\ out_data' = out_data @@ (ep :> grp)
               /\ Raise(ErrNotRobosuite)
               /\ UNCHANGED <<total_samples, ind>>
          ELSE /\ out_data' = out_data @@
                    (ep :> [grp EXCEPT !.attrs.camera_info = <<camera_info>>])
               /\ total_samples' = total_samples + NumSamples(traj)
               /\ ind' = ind + 1
               /\ pc' = "loop"
               /\ UNCHANGED failure
    /\ UNCHANGED <<cfgVars, srcVars, out_created, out_mask, out_attrs,
                   ep, states, actions, initial_state, simVars, trajVars>>
    /\ UNCHANGED camVars

\* what the source file can hold as "mask": nothing, or one filter key that
\* lists every demonstration of the file
MaskChoices(names) == {<<>>, <<[train |-> names]>>}

\* lines 427-437: filter keys and global metadata, after the last episode
Finalize ==
    /\ pc = "loop"
    /\ ind = Len(demos)
    /\ \E m \in MaskChoices(f_demos) :
        /\ f_mask' = ReadAs(m)
        /\ out_mask' = m
    /\ out_attrs' = [total |-> <<total_samples>>, env_args |-> <<"env_args">>]
    /\ pc' = "done"
    /\ UNCHANGED <<failure, cfgVars, dataset_opened, f_demos, f_data, demos,
                   out_created, out_data, loopVars, simVars, trajVars>>
    /\ UNCHANGED camVars

Next ==
    \/ CheckDepth
    \/ CreateEnv
    \/ OpenInput
    \/ CreateOutput
    \/ LoadDemo
    \/ ExtractBegin
    \/ LoopIter
    \/ ExtractEnd
    \/ CopySignals
    \/ WriteGroup
    \/ Finalize

Spec == Init /\ [][Next]_vars

\* ------------------------------------------- get_camera_info, called alone
ErrCamNotRobosuite == "AssertionError: EnvUtils.is_robosuite_env(env=env)"
ErrCamNotRobot0 == "AssertionError: cam_name.startswith('robot0')"

\* a call get_camera_info(env, camera_names) is about to start, the script
\* itself standing still
CamInit ==
    /\ args = DefaultArgs
    /\ ScriptStart
    /\ cam_pc = "call"
    /\ cam_env \in CamEnvs
    /\ cam_names \in CamNamesChoices
    /\ cam_i = 0
    /\ cam_info = <<>>
    /\ cam_failure = ""

scriptVars == <<pc, failure, cfgVars, srcVars, outVars, loopVars, simVars, trajVars>>

\* lines 259-264: the assertion, the None case, the empty dict
CamEnter ==
    /\ cam_pc = "call"
    /\ IF ~cam_env.robosuite
       THEN cam_pc' = "failed" /\ cam_failure' = ErrCamNotRobosuite
       ELSE IF cam_names = <<>>
       THEN cam_pc' = "returned_none" /\ UNCHANGED cam_failure
       ELSE cam_pc' = "loop" /\ UNCHANGED cam_failure
    /\ UNCHANGED <<cam_env, cam_names, cam_i, cam_info, scriptVars>>

\* lines 265-286: one iteration of the loop over camera_names
CamIter ==
    /\ cam_pc = "loop"
    /\ cam_i < Len(cam_names[1])
    /\ LET cam_name == cam_names[1][cam_i + 1]
           K == IntrinsicMatrix(cam_env, cam_name)
       IN IF IsEyeInHand(cam_name) /\ ~IsRobot0(cam_name)
          THEN /\ cam_pc' = "failed" /\ cam_failure' = ErrCamNotRobot0
               /\ UNCHANGED <<cam_i, cam_info>>
          ELSE /\ cam_info' = [c \in DOMAIN cam_info \cup {cam_name} |->
                                  IF c = cam_name
                                  THEN [intrinsics |-> K,
                                        extrinsics |-> ToList(Extrinsics(cam_env, cam_name))]
                                  ELSE cam_info[c]]
               /\ cam_i' = cam_i + 1
               /\ UNCHANGED <<cam_pc, cam_failure>>
    /\ UNCHANGED <<cam_env, cam_names, scriptVars>>

\* line 287
CamReturn ==
    /\ cam_pc = "loop"
    /\ cam_i = Len(cam_names[1])
    /\ cam_pc' = "returned"
    /\ UNCHANGED <<cam_env, cam_names, cam_i, cam_info, cam_failure, scriptVars>>

CamNext ==
    \/ CamEnter
    \/ CamIter
    \/ CamReturn

CamSpec == CamInit /\ [][CamNext]_vars

\* ------------------------------------------------------------ properties
\* the number of states of demonstration e in the source file
NumStates(e) == Len(f_data[e].states)

\* the simulator state after the transition of the step with next-obs index
\* i of the current trajectory: reset to the recorded next state, or the
\* final action played from the last recorded state
PostTransition(i) ==
    IF i < Len(states) THEN SimResetTo(states[i + 1])
    ELSE SimStep(SimResetTo(states[Len(states)]), actions[Len(states)])

\* extract_trajectory has just returned traj to its caller
Returned == pc = "copy"

\* C1 as stated: after a run every array of every written trajectory (actions,
\* states, rewards, dones, each obs/<key> and next_obs/<key>) has as many
\* elements as the trajectory has states in the input, under every flag
\* combination.
C1_AllLengthsEqualStates ==
    pc = "done" => \A e \in DOMAIN out_data :
        LET g == out_data[e]
            N == NumStates(e)
        IN /\ Len(g.actions) = N
           /\ Len(g.states) = N
           /\ Len(g.rewards) = N
           /\ Len(g.dones) = N
           /\ \A k \in DOMAIN g.obs : Len(g.obs[k]) = N
           /\ \A k \in DOMAIN g.next_obs : Len(g.next_obs[k]) = N

\* C1 amended: actions, states and every obs/<key> and next_obs/<key> array
\* of a written trajectory have the length of its input states; rewards
\* (dones) too unless copy_rewards (copy_dones) is set, and then the array
\* has the length of the source's rewards (dones) dataset, whatever it is.
C1_LengthsUnlessCopied ==
    \A e \in DOMAIN out_data :
        LET g == out_data[e]
            N == NumStates(e)
        IN /\ Len(g.actions) = N
           /\ Len(g.states) = N
           /\ Len(g.rewards) = IF args.copy_rewards
                               THEN Len(f_data[e].rewards.data[1]) ELSE N
           /\ Len(g.dones) = IF args.copy_dones
                             THEN Len(f_data[e].dones.data[1]) ELSE N
           /\ DOMAIN g.obs = ObsKeys(args)
           /\ \A k \in DOMAIN g.obs : Len(g.obs[k]) = N
           /\ DOMAIN g.next_obs = IF args.exclude_next_obs THEN {} ELSE ObsKeys(args)
           /\ \A k \in DOMAIN g.next_obs : Len(g.next_obs[k]) = N

\* C1 witness: a finished run wrote a trajectory of MaxLen states with image
\* and next observations, whose copied dones are shorter than its states
C1_Witness ==
    /\ pc = "done"
    /\ args.copy_dones /\ ~args.copy_rewards /\ ~args.exclude_next_obs
    /\ args.camera_names # {}
    /\ \E e \in DOMAIN out_data :
        /\ NumStates(e) = MaxLen
        /\ Len(out_data[e].dones) < MaxLen
        /\ Len(out_data[e].rewards) = MaxLen

\* C2: with done_mode = 1 the returned dones are 1 at the last index and 0
\* at every other index, whatever the simulator would report as success.
C2_DoneMode1LastOnly ==
    (Returned /\ args.done_mode = 1) =>
        /\ Len(traj.dones) = Len(states)
        /\ \A i \in 1 .. Len(states) :
            traj.dones[i] = IF i = Len(states) THEN 1 ELSE 0

\* C2 witness: a trajectory of MaxLen states has been returned in mode 1
C2_Witness == Returned /\ args.done_mode = 1 /\ Len(states) = MaxLen

\* C3: with done_mode = 0 the returned dones[i] is 1 exactly when is_success,
\* asked in the post-transition state of step i, reported success; the last
\* index is 0 when the state after the final action is no success state.
C3_DoneMode0IffSuccess ==
    (Returned /\ args.done_mode = 0) =>
        /\ Len(traj.dones) = Len(states)
        /\ Len(success_ret) = Len(states)
        /\ \A i \in 1 .. Len(states) :
            /\ success_ret[i] # <<>>
            /\ success_ret[i][1].of = PostTransition(i)
            /\ traj.dones[i] = IF success_ret[i][1].task THEN 1 ELSE 0

\* C3 witness: mode 0 returned a trajectory that succeeded midway and whose
\* final state is no success state, so its last done is 0
C3_Witness ==
    /\ Returned /\ args.done_mode = 0 /\ Len(states) = MaxLen
    /\ success_ret[1][1].task /\ ~success_ret[MaxLen][1].task
    /\ traj.dones[1] = 1 /\ traj.dones[MaxLen] = 0

\* the success sequences of the current trajectory that agree with what
\* is_success reported at the steps where it was asked
SuccessSequences ==
    {s \in [1 .. Len(states) -> BOOLEAN] :
        \A i \in 1 .. Len(states) : success_ret[i] # <<>> => s[i] = success_ret[i][1].task}

\* C4: the dones returned with done_mode = 2 are, at every index, the logical
\* OR of the dones that done_mode = 0 and done_mode = 1 give for the same
\* trajectory and the same success sequence.
C4_DoneMode2IsOr ==
    (Returned /\ args.done_mode = 2) =>
        /\ Len(traj.dones) = Len(states)
        /\ \A s \in SuccessSequences : \A i \in 1 .. Len(states) :
            traj.dones[i] = Max(InferDone(0, i, Len(states), s[i]),
                                InferDone(1, i, Len(states), s[i]))

\* C4 witness: mode 2 returned a trajectory with a success before the end
\* and a step without success
C4_Witness ==
    /\ Returned /\ args.done_mode = 2 /\ Len(states) = MaxLen
    /\ success_ret[1] = <<[task |-> TRUE, of |-> PostTransition(1)]>>
    /\ success_ret[2] # <<>> /\ ~success_ret[2][1].task
    /\ success_ret[MaxLen] = <<>>
    /\ traj.dones[1] = 1 /\ traj.dones[2] = 0 /\ traj.dones[MaxLen] = 1

\* C5: the optional copy replaces rewards by the source's rewards dataset
\* exactly when copy_rewards is set and dones by the source's dones exactly
\* when copy_dones is set; the array whose flag is unset keeps the value
\* extract_trajectory inferred, actions, states and observations are left
\* alone, and the episode is written with these arrays.
C5_CopyOverridesOnlyItsArray ==
    [][/\ (pc = "copy" /\ pc' = "write") =>
            /\ traj'.rewards = IF args.copy_rewards
                               THEN f_data'[ep].rewards.data[1] ELSE traj.rewards
            /\ traj'.dones = IF args.copy_dones
                             THEN f_data'[ep].dones.data[1] ELSE traj.dones
            /\ traj'.actions = traj.actions /\ traj'.states = traj.states
            /\ traj'.obs = traj.obs /\ traj'.next_obs = traj.next_obs
       /\ (pc = "write") =>
            /\ ep \in DOMAIN out_data'
            /\ out_data'[ep].rewards = traj.rewards
            /\ out_data'[ep].dones = traj.dones
            /\ args.copy_rewards => out_data'[ep].rewards = f_data[ep].rewards.data[1]
            /\ args.copy_dones => out_data'[ep].dones = f_data[ep].dones.data[1]
            /\ out_data'[ep].actions = f_data[ep].actions
            /\ out_data'[ep].states = f_data[ep].states
            /\ out_data'[ep].obs = traj.obs
            /\ \A e \in DOMAIN out_data : out_data'[e] = out_data[e]
      ]_vars

\* C5 witness: a finished run with copy_rewards only wrote an episode whose
\* rewards are the source's and whose dones are the inferred ones of mode 0
\* (a success before the end, none at the end)
C5_Witness ==
    /\ pc = "done"
    /\ args.copy_rewards /\ ~args.copy_dones /\ args.done_mode = 0
    /\ \E e \in DOMAIN out_data :
        /\ NumStates(e) = MaxLen
        /\ out_data[e].rewards = RewardsOf(e, MaxLen)
        /\ out_data[e].dones[1] = 1 /\ out_data[e].dones[MaxLen] = 0

\* the current trajectory reaches extract_trajectory with a number of actions
\* that differs from its number of states
CalledMismatched ==
    /\ ep \in DOMAIN f_data
    /\ Len(f_data[ep].states) > 0
    /\ Len(f_data[ep].states) # Len(f_data[ep].actions)

\* C6: a trajectory whose number of actions differs from its number of states
\* fails extract_trajectory's assertion before any simulator call is made for
\* it and before any group of it exists in the output; the assertion fails
\* for no other trajectory.
C6_MismatchFailsFirst ==
    /\ CalledMismatched =>
        /\ pc = "extract" \/ (pc = "failed" /\ failure = ErrLengths)
        /\ sim_log = <<>>
        /\ ep \notin DOMAIN out_data
    /\ failure = ErrLengths => CalledMismatched

\* C6 witness: the second trajectory of a run failed the assertion
C6_Witness ==
    /\ pc = "failed" /\ failure = ErrLengths
    /\ ind = 1 /\ Len(states) = MaxLen /\ Len(actions) = MaxLen - 1

\* the exceptions extract_trajectory raises
ExtractFailures == {ErrLengths, ErrUnbound}

\* the group of episode e in the output is complete
Complete(e) ==
    LET g == out_data[e]
    IN /\ g.actions = f_data[e].actions /\ g.states = f_data[e].states
       /\ Len(g.rewards) > 0 /\ Len(g.dones) > 0
       /\ DOMAIN g.obs = ObsKeys(args)
       /\ DOMAIN g.camera_info = args.camera_names
       /\ g.attrs.model_file # <<>>
       /\ g.attrs.num_samples # <<>>
       /\ g.attrs.camera_info # <<>>

\* C7: when extract_trajectory fails on the k-th trajectory the run is over
\* (nothing is retried, no later trajectory is read): the output holds the
\* complete groups of the k-1 trajectories before it and nothing else, no
\* mask group and neither the total nor the env_args attribute.
C7_FailureAborts ==
    failure \in ExtractFailures =>
        /\ pc = "failed"
        /\ ~ENABLED Next
        /\ ind < Len(demos) /\ ep = demos[ind + 1]
        /\ DOMAIN out_data = {demos[i] : i \in 1 .. ind}
        /\ DOMAIN f_data = {demos[i] : i \in 1 .. ind + 1}
        /\ \A e \in DOMAIN out_data : Complete(e)
        /\ out_mask = <<>> /\ f_mask = Unread
        /\ out_attrs.total = <<>> /\ out_attrs.env_args = <<>>

\* C7 witness: extract_trajectory failed on the second trajectory, after one
\* group was written
C7_Witness ==
    /\ failure \in ExtractFailures /\ pc = "failed"
    /\ ind = 1 /\ Len(demos) = 2 /\ DOMAIN out_data = {demos[1]}

\* C8: with depth set and no camera name the run fails by assertion before
\* the environment is created, the input file opened or the output file
\* created; with depth unset or a camera name the assertion does not fire.
C8_DepthNeedsCameras ==
    /\ (args.depth /\ args.camera_names = {}) =>
        /\ pc = "start" \/ (pc = "failed" /\ failure = ErrDepth)
        /\ ~env_created /\ ~dataset_opened /\ ~out_created
    /\ failure = ErrDepth => (args.depth /\ args.camera_names = {})
    /\ (pc = "failed" /\ failure = ErrDepth) => ~ENABLED Next

\* C8 witness: the depth assertion has failed
C8_Witness == pc = "failed" /\ failure = ErrDepth

\* the names of the demonstrations to play back
DemoSet == {demos[i] : i \in DOMAIN demos}

\* C9: the demonstrations are played back in increasing order of the number
\* in their name, they are the min(n, number of demos) lowest-numbered ones
\* when n is given and all of them otherwise, each is written under the name
\* of its source group, and a finished run has written each of them.
C9_OrderAndLimit ==
    pc \notin {"start", "create_env", "open_input"} =>
        /\ \A i, j \in DOMAIN demos : i < j => IntOf(demos[i]) < IntOf(demos[j])
        /\ DemoSet \subseteq f_demos
        /\ Len(demos) = IF args.n = <<>> THEN Cardinality(f_demos)
                        ELSE Min(args.n[1], Cardinality(f_demos))
        /\ \A d \in DemoSet : \A o \in f_demos \ DemoSet : IntOf(d) < IntOf(o)
        /\ \E m \in {ind, ind + 1} : DOMAIN f_data = {demos[i] : i \in 1 .. m}
        /\ {demos[i] : i \in 1 .. ind} \subseteq DOMAIN out_data
        /\ DOMAIN out_data \subseteq DOMAIN f_data
        /\ \A e \in DOMAIN out_data : out_data[e].states = StatesOf(e, NumStates(e))
        /\ pc = "done" => DOMAIN out_data = DemoSet

\* C9 witness: of demo_10 and demo_2 a finished run with n = 1 wrote demo_2
C9_Witness ==
    /\ pc = "done" /\ args.n = <<1>>
    /\ f_demos = {<<1, 0>>, <<2>>}
    /\ DOMAIN out_data = {<<2>>}

\* the sum of the num_samples attributes of the episodes in S
RECURSIVE SumSamples(_)
SumSamples(S) ==
    IF S = {} THEN 0
    ELSE LET e == CHOOSE x \in S : TRUE
         IN out_data[e].attrs.num_samples[1] + SumSamples(S \ {e})

\* the sum of the lengths of the first k trajectories
RECURSIVE SumLengths(_)
SumLengths(k) == IF k = 0 THEN 0 ELSE NumStates(demos[k]) + SumLengths(k - 1)

\* C10: num_samples of every written episode is its number of actions, which
\* is its number of states; at the head of the loop the running total is the
\* sum of the lengths of the trajectories written so far; after a finished
\* run the total attribute is the sum of the num_samples attributes.
C10_TotalIsSum ==
    /\ \A e \in DOMAIN out_data :
        /\ out_data[e].attrs.num_samples = <<Len(out_data[e].actions)>>
        /\ Len(out_data[e].actions) = NumStates(e)
    /\ pc = "loop" =>
        /\ DOMAIN out_data = {demos[i] : i \in 1 .. ind}
        /\ total_samples = SumLengths(ind)
        /\ total_samples = SumSamples(DOMAIN out_data)
    /\ pc = "done" =>
        /\ out_attrs.total = <<SumSamples(DOMAIN out_data)>>
        /\ out_attrs.total = <<SumLengths(Len(demos))>>

\* C10 witness: a finished run wrote two trajectories of different lengths
C10_Witness ==
    /\ pc = "done" /\ Len(demos) = 2
    /\ NumStates(demos[1]) = MaxLen /\ NumStates(demos[2]) = MaxLen - 1
    /\ out_attrs.total = <<2 * MaxLen - 1>>

\* the simulator calls of a trajectory of len states up to and including the
\* iteration with next-obs index upto, is_success left out
RECURSIVE ExpectedCalls(_, _)
ExpectedCalls(len, upto) ==
    IF upto = 0 THEN <<Call("reset", -1), Call("reset_to", 0)>>
    ELSE ExpectedCalls(len, upto - 1)
            \o <<IF upto = len THEN Call("step", len - 1) ELSE Call("reset_to", upto),
                 Call("get_reward", -1)>>

\* the log of simulator calls without the calls of is_success
TransitionsAndRewards == SelectSeq(sim_log, LAMBDA c : c.call # "is_success")

\* the loop of extract_trajectory has run all its iterations for the current
\* trajectory, and the caller has not yet touched the result
LoopOver == pc \in {"end_extract", "copy"} \/ (pc = "failed" /\ failure = ErrUnbound)

\* C12: for each trajectory the simulator sees env.reset, reset_to(initial
\* state), reset_to(states[t]) for t = 1..N-1 and then one env.step with the
\* final action, played from states[N-1]; the reward is read once after each
\* of the N transitions, so rewards[i] is the reward of the post-transition
\* state of step i; is_success, when asked, directly follows get_reward.
C12_CallOrder ==
    /\ pc = "iter" => TransitionsAndRewards = ExpectedCalls(Len(states), t - 1)
    /\ LoopOver =>
        /\ TransitionsAndRewards = ExpectedCalls(Len(states), Len(states))
        /\ sim = SimStep(SimResetTo(states[Len(states)]), actions[Len(states)])
        /\ Len(traj.rewards) = Len(states)
        /\ \A i \in 1 .. Len(states) : traj.rewards[i] = GetReward(PostTransition(i))
    /\ \A j \in DOMAIN sim_log :
        sim_log[j].call = "is_success" => (j > 1 /\ sim_log[j - 1].call = "get_reward")

\* C12 witness: the second trajectory of a run, of MaxLen states, has been
\* replayed, with is_success asked along the way
C12_Witness ==
    /\ Returned /\ ind = 1 /\ Len(states) = MaxLen
    /\ Len(sim_log) = 2 + 3 * MaxLen

\* C13 as stated: after a completed run, runs limited by n included, every
\* demonstration name listed in a filter key of the output's mask group names
\* a group under the output's "data", and the output has no mask group when
\* the source has none.  Lines 427-429 copy the mask whole while lines 349-351
\* cut the list of played-back demonstrations, so the first part fails.
C13_MaskNamesAreGroups ==
    pc = "done" =>
        /\ out_mask # <<>> => out_mask[1].train \subseteq DOMAIN out_data
        /\ f_mask.data = <<>> => out_mask = <<>>

\* C14 as stated: extract_trajectory returns for every trajectory of N >= 1
\* states and N actions, N = 1 included: no variable is read before it is
\* assigned, and the returned traj has N obs, next_obs, rewards and dones.
\* Line 229 reads next_camera_info, which only the branch of line 197 binds,
\* so the single-step trajectory ends in an UnboundLocalError.
C14_ExtractReturnsForEveryLength ==
    /\ failure # ErrUnbound
    /\ Returned =>
        /\ Len(traj.rewards) = Len(states) /\ Len(traj.dones) = Len(states)
        /\ \A k \in DOMAIN traj.obs : Len(traj.obs[k]) = Len(states)
        /\ \A k \in DOMAIN traj.next_obs : Len(traj.next_obs[k]) = Len(states)

\* C16 as stated: a done_mode outside {0, 1, 2} is not rejected:
\* extract_trajectory, called with as many actions as states, raises no
\* error, never asks is_success, and its dones are 0 at every index.
C16_UnknownModeAllZero ==
    (args.done_mode \notin {0, 1, 2} /\ Len(actions) = Len(states)) =>
        /\ failure \notin ExtractFailures
        /\ \A i \in DOMAIN success_ret : success_ret[i] = <<>>
        /\ \A j \in DOMAIN sim_log : sim_log[j].call # "is_success"
        /\ LoopOver => \A i \in DOMAIN traj.dones : traj.dones[i] = 0

\* the number of transitions collected so far for the current trajectory
Collected == IF pc = "iter" THEN t - 1 ELSE Len(states)

\* entry i of key k of an observation list of traj, which is a list of dicts
\* until lines 232-233 turn it into a dict of lists
ObsEntry(list, i, k) == IF pc = "copy" THEN list[k][i] ELSE list[i][k]

\* C15: for every camera key of the initial reset_to, the intrinsics and
\* extrinsics lists of traj have one entry per collected transition, N in the
\* end, and entry i is the camera info of the reset_to call that produced
\* obs[i]: the initial one for i = 0, reset_to(states[i]) after; the final
\* env.step adds no entry; obs[i+1] equals next_obs[i] for every i < N-1.
C15_CameraInfoAligned ==
    (pc = "iter" \/ LoopOver) =>
        /\ DOMAIN traj.camera_info = DOMAIN CameraInfo(SimResetTo(initial_state.states),
                                                       args.camera_names)
        /\ \A c \in DOMAIN traj.camera_info :
            /\ Len(traj.camera_info[c].intrinsics) = Collected
            /\ Len(traj.camera_info[c].extrinsics) = Collected
            /\ \A i \in 1 .. Collected :
                LET src == IF i = 1 THEN initial_state.states ELSE states[i]
                    ci == CameraInfo(SimResetTo(src), args.camera_names)[c]
                IN /\ traj.camera_info[c].intrinsics[i] = ci.camera_intrinsics
                   /\ traj.camera_info[c].extrinsics[i] = ci.camera_extrinsics
        /\ \A k \in ObsKeys(args) :
            /\ \A i \in 1 .. Collected :
                LET src == IF i = 1 THEN initial_state.states ELSE states[i]
                IN ObsEntry(traj.obs, i, k) = Observation(SimResetTo(src), ObsKeys(args))[k]
            /\ \A i \in 1 .. Collected - 1 :
                ObsEntry(traj.obs, i + 1, k) = ObsEntry(traj.next_obs, i, k)

\* C15 witness: a trajectory of MaxLen states has been returned with a camera
\* configured, its lists filled
C15_Witness ==
    /\ Returned /\ Len(states) = MaxLen
    /\ \E c \in DOMAIN traj.camera_info : Len(traj.camera_info[c].extrinsics) = MaxLen

\* C11: in the dict get_camera_info builds, the extrinsics of a camera whose
\* name does not contain eye_in_hand are the simulator's matrix for that
\* camera, untouched; those of an eye_in_hand camera are that matrix composed
\* with the inverse of the end-effector pose, so composing them with the pose
\* gives the simulator's matrix back.
C11_ExtrinsicsRawUnlessEyeInHand ==
    \A c \in DOMAIN cam_info :
        LET raw == ExtrinsicMatrix(cam_env, c)
            got == cam_info[c].extrinsics
        IN IF Contains(c, <<"eye", "in", "hand">>)
           THEN Dot(FromList(got), EefPose(cam_env.site_xmat, cam_env.site_xpos)) = raw
           ELSE got = ToList(raw)

\* C11 witness: a call returned a dict with an eye_in_hand camera, whose
\* extrinsics differ from the simulator's matrix, and one that is none
C11_Witness ==
    /\ cam_pc = "returned"
    /\ \E c, d \in DOMAIN cam_info :
        /\ Contains(c, <<"eye", "in", "hand">>)
        /\ cam_info[c].extrinsics # ToList(ExtrinsicMatrix(cam_env, c))
        /\ ~Contains(d, <<"eye", "in", "hand">>)
        /\ StartsWith(d, <<"robot0">>)

====
